---- MODULE Spec2Model ----
(***************************************************************************)
(* Runner service of squat-collective/rat: admission and run registry      *)
(* (server.py), crash markers (state_dir.py), the six-phase executor       *)
(* (executor.py) and the catalog branch it works on (nessie.py).           *)
(*                                                                         *)
(* A RunState object lives in the memory of one runner process; the        *)
(* registry maps a run identifier to one such object.  The marker          *)
(* directory and the catalog outlive the process.                          *)
(***************************************************************************)
EXTENDS Naturals, FiniteSets, Sequences, TLC

\* ---------------------------------------------------------------- bounds
\* Submissions admitted in one behaviour.
MaxObjs == 2
\* self._max_concurrent_runs, the configured cap (RUNNER_MAX_CONCURRENT).
MaxConcurrentRuns == 1
\* Largest max_retries a pipeline's config.yaml declares.
MaxRetries == 1
\* Process crashes in one behaviour.
MaxCrashes == 1

\* Run identifiers a caller may supply (or uuid4 may generate).
RunIds == {1, 2}
\* RunState objects of admitted submissions, in order of admission.  An
\* object of a process that died is never used again.
Objs == 1..MaxObjs
\* The RunState that startup reconciliation creates for a run identifier.
CrashedObj(id) == MaxObjs + id
AllObjs == Objs \cup {CrashedObj(id) : id \in RunIds}

\* ------------------------------------------------------------ RunStatus
PENDING == "PENDING"
RUNNING == "RUNNING"
SUCCESS == "SUCCESS"
FAILED == "FAILED"
CANCELLED == "CANCELLED"

\* RunStatus.is_terminal
IsTerminalStatus(s) == s \in {SUCCESS, FAILED, CANCELLED}

\* ------------------------------------------------------- error messages
ErrNone == ""
ErrCancelled == "Run cancelled by user"
ErrRestarted == "Runner process restarted - run was in-flight when the previous process crashed"
ErrSourceAbsent == "Pipeline not found"
ErrException == "exception"
ErrQuality == "Quality tests failed"
ErrMerge == "Branch merge failed"

VARIABLES
    boot,        \* process: "up", "down", "collecting", "reconciled"
    crashes,     \* crashes so far
    nObj,        \* submissions admitted so far
    run,         \* object -> RunState fields
    wk,          \* object -> position and context of the worker that owns it
    registry,    \* self._runs: run identifier -> object (0: absent)
    markers,     \* <state_dir>/<run-id>.json files on disk
    scan,        \* collect_crashed_runs: marker paths still to visit
    crashed,     \* collect_crashed_runs: the list it returns
    atDeath,     \* markers on disk when the process last died
    branches,    \* catalog: run identifiers whose branch run-<id> exists
    branchData,  \* catalog: writes held by branch run-<id> since its creation
    main,        \* catalog: writes that reached main
    resp,        \* response of the last SubmitPipeline / CancelRun
    call,        \* a library function under test: its arguments and result
    sent,        \* object -> the status callbacks POSTed for it, in order
    logs,        \* object -> number of records in its log deque
    content      \* run identifier -> what its marker file holds

vars == <<boot, crashes, nObj, run, wk, registry, markers, scan, crashed,
          atDeath, branches, branchData, main, resp, call, sent,
          logs, content>>

server == <<boot, crashes, scan, crashed, atDeath>>
catalog == <<branches, branchData, main>>

\* RunState(...) defaults of models.py; no object yet: run_id 0.
NoRun == [run_id |-> 0, status |-> PENDING, error |-> ErrNone,
          cancel_event |-> FALSE, aged |-> FALSE, since_end |-> FALSE,
          duration |-> FALSE]
NewRun(id) == [NoRun EXCEPT !.run_id = id]

\* A worker's position and its _PipelineContext; "none": no worker.
\* branch_name "run" stands for run-<run_id>; calls are the merge and delete
\* requests the attempt has sent to the catalog and the post-success tasks it
\* has run; tested is the catalog reference the quality tests read; row_count
\* is the size of the result, and rows_written is 0 exactly when it is 0.
NoWorker == [pc |-> "none", attempt |-> 0, max_retries |-> 0,
             branch_created |-> FALSE, gate |-> <<>>, saw_cancel |-> FALSE,
             branch_name |-> "", engine |-> "none", calls |-> {},
             tested |-> "none", row_count |-> 0]

RespNone == [op |-> "none", code |-> "", current |-> 0, max |-> 0]

\* No library function is under test.
NoCall == [fn |-> "none"]

\* RunState.is_terminal
is_terminal(o) == IsTerminalStatus(run[o].status)

\* Objects the registry holds.
Registered == {registry[id] : id \in RunIds} \ {0}

\* active_count of SubmitPipeline / active_run_count
active_run_count == Cardinality({o \in Registered : ~is_terminal(o)})

\* _STATUS_TO_PROTO: Cancelled has no value of its own on the wire.
StatusToProto(st) == IF st = CANCELLED THEN FAILED ELSE st

\* GetRunStatus: the status, the error and whether duration_ms carries the
\* elapsed time of the attempt (it is 0 until the finally block sets it).
GetRunStatus(id) ==
    IF registry[id] = 0
    THEN [code |-> "NOT_FOUND", status |-> "", error |-> "", duration |-> FALSE]
    ELSE [code |-> "OK", status |-> StatusToProto(run[registry[id]].status),
          error |-> run[registry[id]].error,
          duration |-> run[registry[id]].duration]

\* The runner after construction with an empty state directory.
Idle ==
    /\ boot = "up"
    /\ crashes = 0
    /\ nObj = 0
    /\ run = [o \in AllObjs |-> NoRun]
    /\ wk = [o \in Objs |-> NoWorker]
    /\ registry = [id \in RunIds |-> 0]
    /\ markers = {}
    /\ scan = {}
    /\ crashed = {}
    /\ atDeath = {}
    /\ branches = {}
    /\ branchData = [id \in RunIds |-> {}]
    /\ main = {}
    /\ resp = RespNone
    /\ sent = [o \in Objs |-> <<>>]
    /\ logs = [o \in Objs |-> 0]
    /\ content = [id \in RunIds |-> "valid"]

Init == Idle /\ call = NoCall

\* ------------------------------------------------------------ admission

\* Faulty variant of the capacity test: off by one.
AtCapacityOffByOne(active) == active > MaxConcurrentRuns

\* server.py:353, the capacity test of SubmitPipeline.
AtCapacity(active) == active >= MaxConcurrentRuns

\* SubmitPipeline, lines 338-360 and 395: the critical section under
\* _runs_lock.  The run identifier is the caller's, or a fresh uuid4.
SubmitPipeline(id) ==
    /\ boot = "up"
    /\ nObj < MaxObjs
    /\ LET active == active_run_count IN
       IF AtCapacity(active)
       THEN /\ resp' = [op |-> "submit", code |-> "RESOURCE_EXHAUSTED",
                        current |-> active, max |-> MaxConcurrentRuns]
            /\ UNCHANGED <<nObj, run, wk, registry>>
       ELSE /\ nObj' = nObj + 1
            /\ run' = [run EXCEPT ![nObj + 1] = NewRun(id)]
            /\ wk' = [wk EXCEPT ![nObj + 1] = [NoWorker EXCEPT !.pc = "admitted"]]
            /\ registry' = [registry EXCEPT ![id] = nObj + 1]
            /\ resp' = [op |-> "submit", code |-> "OK", current |-> 0, max |-> 0]
    /\ UNCHANGED <<markers, server, catalog>>
    /\ UNCHANGED <<call, sent, logs, content>>

\* SubmitPipeline, lines 371-393: write_marker, then pool.submit.
SubmitDispatch(o) ==
    /\ boot = "up"
    /\ wk[o].pc = "admitted"
    /\ markers' = markers \cup {run[o].run_id}
    /\ wk' = [wk EXCEPT ![o].pc = "queued"]
    /\ UNCHANGED <<nObj, run, registry, resp, server, catalog>>
    /\ UNCHANGED <<call, sent, logs, content>>

\* Faulty variant: a terminal run is cancelled like any other.
CancelRefusedNever(o) == FALSE

\* CancelRun, line 473: the run is terminal and the request is refused.
CancelRefused(o) == is_terminal(o)

\* CancelRun
CancelRun(id) ==
    /\ boot = "up"
    /\ IF registry[id] = 0
       THEN /\ resp' = [op |-> "cancel", code |-> "NOT_FOUND", current |-> 0, max |-> 0]
            /\ UNCHANGED run
       ELSE IF CancelRefused(registry[id])
       THEN /\ resp' = [op |-> "cancel", code |-> "cancelled=false", current |-> 0, max |-> 0]
            /\ UNCHANGED run
       ELSE /\ run' = [run EXCEPT ![registry[id]].cancel_event = TRUE]
            /\ resp' = [op |-> "cancel", code |-> "cancelled=true", current |-> 0, max |-> 0]
    /\ UNCHANGED <<nObj, wk, registry, markers, server, catalog>>
    /\ UNCHANGED <<call, sent, logs, content>>

\* The wall clock passes RUN_TTL_SECONDS since the run's created_at (aged)
\* and, later, RUN_TTL_SECONDS since the run took its terminal status
\* (since_end).
Tick(o) ==
    /\ boot = "up"
    /\ o \in Registered
    /\ IF ~run[o].aged
       THEN run' = [run EXCEPT ![o].aged = TRUE]
       ELSE /\ is_terminal(o)
            /\ ~run[o].since_end
            /\ run' = [run EXCEPT ![o].since_end = TRUE]
    /\ UNCHANGED <<nObj, wk, registry, markers, resp, server, catalog>>
    /\ UNCHANGED <<call, sent, logs, content>>

\* Faulty variant: the sweep deletes every old run.
ExpiredWhenAged(o) == run[o].aged

\* _evict_expired_runs, line 159: what the sweep deletes.
Expired(o) == is_terminal(o) /\ run[o].aged

\* _evict_expired_runs (one pass of _cleanup_loop)
EvictExpired ==
    /\ boot = "up"
    /\ \E id \in RunIds : registry[id] # 0 /\ Expired(registry[id])
    /\ registry' = [id \in RunIds |->
                      IF registry[id] # 0 /\ Expired(registry[id]) THEN 0 ELSE registry[id]]
    /\ UNCHANGED <<nObj, run, wk, markers, resp, server, catalog>>
    /\ UNCHANGED <<call, sent, logs, content>>

\* ---------------------------------------------------------------- worker

\* execute_pipeline, lines 556-571: status RUNNING and a fresh context.
StartAttempt(o) ==
    /\ run' = [run EXCEPT ![o].status = RUNNING, ![o].error = ErrNone,
                          ![o].duration = FALSE, ![o].since_end = FALSE]
    /\ wk' = [wk EXCEPT ![o].pc = "p0", ![o].branch_created = FALSE,
                        ![o].gate = <<>>, ![o].branch_name = "",
                        ![o].engine = "none", ![o].calls = {},
                        ![o].tested = "none", ![o].row_count = 0]

\* _execute_with_marker picked up by a pool thread; execute_pipeline begins.
WorkerStart(o) ==
    /\ boot = "up"
    /\ wk[o].pc = "queued"
    /\ StartAttempt(o)
    /\ UNCHANGED <<nObj, registry, markers, resp, server, catalog>>
    /\ UNCHANGED <<call, sent, logs, content>>

\* _check_cancelled raising, caught at executor.py:581-584.
CancelledTo(o, to) ==
    /\ run' = [run EXCEPT ![o].status = CANCELLED, ![o].error = ErrCancelled]
    /\ wk' = [wk EXCEPT ![o].pc = to, ![o].saw_cancel = TRUE]

Cancelled(o) == CancelledTo(o, "fin")

\* Any other exception of a phase, caught at executor.py:586-589.
RaisedFrom(w, o, err, to) ==
    /\ run' = [run EXCEPT ![o].status = FAILED, ![o].error = err]
    /\ wk' = [w EXCEPT ![o].pc = to]

RaisedTo(o, err, to) == RaisedFrom(wk, o, err, to)

Raised(o, err) == RaisedTo(o, err, "fin")

\* An exception that is not an Exception (SystemExit raised by the code of
\* a Python pipeline) passes both handlers: the finally block runs and
\* execute_pipeline raises, the status left as it was.
EscapedFrom(w, o, to) ==
    /\ wk' = [w EXCEPT ![o].pc = to]
    /\ UNCHANGED run

EscapedTo(o, to) == EscapedFrom(wk, o, to)

\* The context after a merge_branch or delete_branch request was sent.
Called(o, c) == [wk EXCEPT ![o].calls = @ \cup {c}]

\* delete_branch answered by the catalog: the branch is gone (a 404 counts).
BranchDeleted(id) ==
    /\ branches' = branches \ {id}
    /\ branchData' = [branchData EXCEPT ![id] = {}]
    /\ UNCHANGED main

\* nessie._validate_branch_name failing for run-<id>: the identifier is one
\* of those the request under test marks as holding a character outside
\* [a-zA-Z0-9._-] (a space, say) or "..".
InvalidBranchName(id) == call.fn = "SubmitPipeline" /\ id \in call.unsafe

\* _phase0_create_branch: create_branch succeeds, or raises (ValueError for
\* an invalid name, or any error of the catalog) and the run writes to main.
Phase0(o) ==
    /\ boot = "up"
    /\ wk[o].pc = "p0"
    /\ IF run[o].cancel_event
       THEN Cancelled(o) /\ UNCHANGED catalog
       ELSE \/ /\ ~InvalidBranchName(run[o].run_id)
               /\ branches' = branches \cup {run[o].run_id}
               /\ wk' = [wk EXCEPT ![o].pc = "p1", ![o].branch_created = TRUE,
                                   ![o].branch_name = "run"]
               /\ UNCHANGED <<run, branchData, main>>
            \/ /\ wk' = [wk EXCEPT ![o].pc = "p1", ![o].branch_name = "main"]
               /\ UNCHANGED <<run, catalog>>
    /\ UNCHANGED <<nObj, registry, markers, resp, server>>
    /\ UNCHANGED <<call, sent, logs, content>>

\* _phase1_detect_and_load
Phase1(o) ==
    /\ boot = "up"
    /\ wk[o].pc = "p1"
    /\ IF run[o].cancel_event
       THEN Cancelled(o)
       ELSE \/ Raised(o, ErrSourceAbsent)
            \/ wk' = [wk EXCEPT ![o].pc = "p2"] /\ UNCHANGED run
    /\ UNCHANGED <<nObj, registry, markers, resp, server, catalog>>
    /\ UNCHANGED <<call, sent, logs, content>>

\* Most rows a pipeline returns.
MaxRowCount == 1

\* _phase2_build_result
Phase2(o) ==
    /\ boot = "up"
    /\ wk[o].pc = "p2"
    /\ IF run[o].cancel_event
       THEN Cancelled(o)
       ELSE LET w == [wk EXCEPT ![o].engine = "open"] IN
            \/ RaisedFrom(w, o, ErrException, "fin")
            \/ EscapedFrom(w, o, "finx")
            \/ \E n \in 0..MaxRowCount :
                  /\ wk' = [w EXCEPT ![o].pc = "p3", ![o].row_count = n]
                  /\ UNCHANGED run
    /\ UNCHANGED <<nObj, registry, markers, resp, server, catalog>>
    /\ UNCHANGED <<call, sent, logs, content>>

\* What one attempt of a run writes to its target table.
Write(o) == <<o, wk[o].attempt>>

\* What the attempt has to write: nothing before Phase 2 has counted the
\* rows, and nothing when it counted none.
Written(o) == IF wk[o].row_count > 0 THEN {Write(o)} ELSE {}

\* The calls of an attempt that act on its catalog branch.
BranchCalls == {"merge", "delete"}

\* _phase3_write_iceberg: the write goes to ctx.branch_name.
Phase3(o) ==
    /\ boot = "up"
    /\ wk[o].pc = "p3"
    /\ IF run[o].cancel_event
       THEN Cancelled(o) /\ UNCHANGED catalog
       ELSE IF wk[o].row_count = 0
       THEN \* lines 315-318: zero rows, the write is skipped
            /\ wk' = [wk EXCEPT ![o].pc = "p4"]
            /\ UNCHANGED <<run, catalog>>
       ELSE IF wk[o].branch_name = "run"
       THEN IF run[o].run_id \in branches
            THEN /\ branchData' = [branchData EXCEPT
                        ![run[o].run_id] = @ \cup {Write(o)}]
                 /\ wk' = [wk EXCEPT ![o].pc = "p4"]
                 /\ UNCHANGED <<run, branches, main>>
            ELSE Raised(o, ErrException) /\ UNCHANGED catalog
       ELSE /\ main' = main \cup {Write(o)}
            /\ wk' = [wk EXCEPT ![o].pc = "p4"]
            /\ UNCHANGED <<run, branches, branchData>>
    /\ UNCHANGED <<nObj, registry, markers, resp, server>>
    /\ UNCHANGED <<call, sent, logs, content>>

\* QualityTestResult, the two fields the gate reads.
QualityTestResult(severity, status) == [severity |-> severity, status |-> status]

\* Result lists run_quality_tests returns in a run: no test ran, a test of
\* severity warn failed, a test of severity error failed, a test of severity
\* error passed and another errored.
QualityResults ==
    {<<>>,
     <<QualityTestResult("warn", "fail")>>,
     <<QualityTestResult("error", "fail")>>,
     <<QualityTestResult("error", "pass"), QualityTestResult("error", "error")>>}

\* Longest result list given to the gate on its own.
MaxResults == 3

\* Sequences over S of length at most n.
SeqsUpTo(S, n) == UNION {[1..k -> S] : k \in 0..n}

\* Every result a quality test can have.
AnyQualityTestResult ==
    {QualityTestResult(sev, st) : sev \in {"error", "warn"},
                                  st \in {"pass", "fail", "error"}}

\* Faulty variant: the gate lets every result through.
has_no_failures(results) == FALSE

\* Faulty variant: a test that errored does not count.
has_error_failures_fail_only(results) ==
    \E i \in DOMAIN results :
        results[i].severity = "error" /\ results[i].status = "fail"

\* quality.has_error_failures
has_error_failures(results) ==
    \E i \in DOMAIN results :
        results[i].severity = "error" /\ results[i].status \in {"fail", "error"}

\* templating._resolve_ref: `this` and ref() of a quality test are resolved
\* with get_catalog(s3_config, nessie_config), whose branch defaults to main.
QualityTarget == "main"

\* _phase4_quality_tests
Phase4(o) ==
    /\ boot = "up"
    /\ wk[o].pc = "p4"
    /\ IF run[o].cancel_event
       THEN Cancelled(o)
       ELSE /\ \E g \in QualityResults :
                 wk' = [wk EXCEPT ![o].pc = "p5", ![o].gate = g,
                                 ![o].tested = QualityTarget]
            /\ UNCHANGED run
    /\ UNCHANGED <<nObj, registry, markers, resp, server, catalog>>
    /\ UNCHANGED <<call, sent, logs, content>>

\* _resolve_with_branch, lines 484-491: merge_branch raised or not.  It
\* raises when the catalog does not answer, and on a 404 for the branch.
MergeOutcome(id) ==
    IF id \in branches THEN {"merged", "raised"} ELSE {"raised"}

\* Faulty variant: the merge takes the source branch away with it.
BranchesAfterMergeDropped(id) == branches \ {id}

\* nessie.merge_branch, lines 161-181: one POST to the merge endpoint of the
\* target; the source reference is left as it is.
BranchesAfterMerge(id) == branches

\* Faulty variant: a merge that raised is taken for one that went through.
MergeFailedIgnored(o) ==
    /\ wk' = [Called(o, "merge") EXCEPT ![o].pc = "post"]
    /\ UNCHANGED <<run, catalog>>

\* _resolve_with_branch, lines 486-491: merge_branch raised.
MergeFailed(o) ==
    RaisedFrom(Called(o, "merge"), o, ErrMerge, "fin") /\ UNCHANGED catalog

\* _phase5_resolve_branch: no _check_cancelled here.
Phase5(o) ==
    /\ boot = "up"
    /\ wk[o].pc = "p5"
    /\ IF wk[o].branch_created
       THEN IF has_error_failures(wk[o].gate)
            THEN \* lines 473-481
                 /\ BranchDeleted(run[o].run_id) \/ UNCHANGED catalog
                 /\ RaisedFrom(Called(o, "delete"), o, ErrQuality, "fin")
            ELSE \* lines 483-493
                 \E r \in MergeOutcome(run[o].run_id) :
                    IF r = "merged"
                    THEN /\ main' = main \cup branchData[run[o].run_id]
                         /\ branches' = BranchesAfterMerge(run[o].run_id)
                         /\ wk' = [Called(o, "merge") EXCEPT ![o].pc = "post"]
                         /\ UNCHANGED <<run, branchData>>
                    ELSE MergeFailed(o)
       ELSE \* _resolve_without_branch
            /\ IF has_error_failures(wk[o].gate)
               THEN Raised(o, ErrQuality)
               ELSE wk' = [wk EXCEPT ![o].pc = "post"] /\ UNCHANGED run
            /\ UNCHANGED catalog
    /\ UNCHANGED <<nObj, registry, markers, resp, server>>
    /\ UNCHANGED <<call, sent, logs, content>>

\* Faulty variant: a failed post-success task fails the run.
PostTaskFailurePropagated(st) == FAILED

\* _archive_landing_zones line 122 and _post_success line 532: the
\* exception of a post-success task is logged, the status stays as it was.
PostTaskFailureLogged(st) == st

\* _post_success line 516: when the landing zones are archived.
ArchivesLandingZones(archive_landing_zones) == archive_landing_zones

\* _post_success line 529: when run_maintenance is called.
RunsMaintenance(row_count) == row_count > 0

\* _post_success: status SUCCESS, then the landing zones archived (their
\* files moved, none found, or an exception) and the table maintained (done,
\* or an exception).
PostSuccess(o) ==
    /\ boot = "up"
    /\ wk[o].pc = "post"
    /\ \E archive_landing_zones \in BOOLEAN,
          archived \in {"moved", "none", "raised"}, maintained \in {"done", "raised"} :
          LET a == IF ~ArchivesLandingZones(archive_landing_zones)
                   THEN {}
                   ELSE IF archived = "moved" THEN {"archive"}
                   ELSE IF archived = "raised" THEN {"archive_failed"}
                   ELSE {}
              m == IF ~RunsMaintenance(wk[o].row_count)
                   THEN {}
                   ELSE IF maintained = "done" THEN {"maintenance"}
                   ELSE {"maintenance", "maintenance_failed"}
              failed == "archive_failed" \in a \/ "maintenance_failed" \in m
          IN /\ run' = [run EXCEPT ![o].status =
                           IF failed THEN PostTaskFailureLogged(SUCCESS) ELSE SUCCESS]
             /\ wk' = [wk EXCEPT ![o].pc = "fin", ![o].calls = @ \cup a \cup m]
    /\ UNCHANGED <<nObj, registry, markers, resp, server, catalog>>
    /\ UNCHANGED <<call, sent, logs, content>>

\* Faulty variant: the delete is sent whatever the branch.
NeedsBranchCleanupAlways(o) == TRUE

\* Faulty variant: a run that succeeded is taken to need no cleanup.
NeedsBranchCleanupOnFailure(o) ==
    wk[o].branch_created /\ run[o].status # SUCCESS

\* execute_pipeline line 593, the test before delete_branch.
NeedsBranchCleanup(o) ==
    wk[o].branch_created /\ wk[o].branch_name # "main"

\* execute_pipeline, the finally block (lines 591-607).  After it the
\* function returns to its caller, or the exception that passed the handlers
\* goes on through _execute_with_marker to its finally block.
Cleanup(o) ==
    /\ boot = "up"
    /\ wk[o].pc \in {"fin", "finx"}
    /\ IF NeedsBranchCleanup(o)
       THEN BranchDeleted(run[o].run_id) \/ UNCHANGED catalog
       ELSE UNCHANGED catalog
    /\ wk' = [wk EXCEPT
                ![o].pc = IF wk[o].pc = "fin" THEN "ret" ELSE "rm",
                ![o].calls = IF NeedsBranchCleanup(o) THEN @ \cup {"delete"} ELSE @,
                ![o].engine = IF @ = "open" THEN "closed" ELSE @]
    /\ run' = [run EXCEPT ![o].duration = TRUE]
    /\ UNCHANGED <<nObj, registry, markers, resp, server>>
    /\ UNCHANGED <<call, sent, logs, content>>

\* execute_pipeline as the server layer sees it, first half: phases 0 to 4,
\* each behind _check_cancelled, up to the return of _phase4_quality_tests.
\* A signal set while these phases run is seen at the next boundary, which
\* for the server is the same as one set before they began.  The catalog is
\* what the phase actions work on; the server never reads it.
ExecuteToGate(o) ==
    /\ boot = "up"
    /\ wk[o].pc = "p0"
    /\ IF run[o].cancel_event
       THEN /\ run' = [run EXCEPT ![o].status = CANCELLED,
                                  ![o].error = ErrCancelled,
                                  ![o].duration = TRUE]
            /\ wk' = [wk EXCEPT ![o].pc = "ret", ![o].saw_cancel = TRUE]
       ELSE \/ /\ run' = [run EXCEPT ![o].status = FAILED,
                                     ![o].error = ErrException,
                                     ![o].duration = TRUE]
               /\ wk' = [wk EXCEPT ![o].pc = "ret"]
            \/ /\ run' = [run EXCEPT ![o].duration = TRUE]
               /\ wk' = [wk EXCEPT ![o].pc = "rm"]
            \/ wk' = [wk EXCEPT ![o].pc = "p5"] /\ UNCHANGED run
    /\ UNCHANGED <<nObj, registry, markers, resp, server, catalog>>
    /\ UNCHANGED <<call, sent, logs, content>>

\* execute_pipeline as the server layer sees it, second half: phase 5,
\* which has no _check_cancelled, and the finally block.
ExecuteResolve(o) ==
    /\ boot = "up"
    /\ wk[o].pc = "p5"
    /\ \/ /\ run' = [run EXCEPT ![o].status = FAILED, ![o].error = ErrQuality,
                                ![o].duration = TRUE]
          /\ wk' = [wk EXCEPT ![o].pc = "ret"]
       \/ /\ run' = [run EXCEPT ![o].status = SUCCESS, ![o].duration = TRUE]
          /\ wk' = [wk EXCEPT ![o].pc = "ret"]
    /\ UNCHANGED <<nObj, registry, markers, resp, server, catalog>>
    /\ UNCHANGED <<call, sent, logs, content>>

\* Faulty variant: any finished attempt is followed by another.
ShouldRetryAny(st) == IsTerminalStatus(st)

\* server.py:234 and :299, the test that lets another attempt follow.
ShouldRetry(st) == st = FAILED

\* Faulty variant: one attempt more than the configuration allows.
RetriesLeftOneMore(attempt, max_retries) == attempt <= max_retries

\* _maybe_retry line 270, the range of the retry loop: having made `attempt`
\* retries, another one follows.
RetriesLeft(attempt, max_retries) == attempt < max_retries

\* The worker leaves execute_pipeline: its context is gone.
Leave(o, to) ==
    [wk EXCEPT ![o].pc = to, ![o].branch_created = FALSE, ![o].gate = <<>>,
               ![o].branch_name = "", ![o].engine = "none", ![o].calls = {},
               ![o].tested = "none", ![o].row_count = 0]

\* _execute_with_marker lines 234-235 and _maybe_retry lines 256-270,
\* 299-310: what follows a return of execute_pipeline.
AfterAttempt(o) ==
    /\ boot = "up"
    /\ wk[o].pc = "ret"
    /\ IF ~ShouldRetry(run[o].status)
       THEN wk' = Leave(o, "rm")
       ELSE IF wk[o].attempt = 0
       THEN \E mr \in 0..MaxRetries :
              IF mr <= 0
              THEN wk' = Leave(o, "rm")
              ELSE wk' = [Leave(o, "wait") EXCEPT ![o].attempt = 1,
                                                  ![o].max_retries = mr]
       ELSE IF RetriesLeft(wk[o].attempt, wk[o].max_retries)
       THEN wk' = [Leave(o, "wait") EXCEPT ![o].attempt = @ + 1]
       ELSE wk' = Leave(o, "rm")
    /\ UNCHANGED <<nObj, run, registry, markers, resp, server, catalog>>
    /\ UNCHANGED <<call, sent, logs, content>>

\* _maybe_retry lines 286-297: cancel_event.wait(timeout), then the reset
\* and the next execute_pipeline.
RetryWait(o) ==
    /\ boot = "up"
    /\ wk[o].pc = "wait"
    /\ IF run[o].cancel_event
       THEN /\ wk' = [wk EXCEPT ![o].pc = "rm", ![o].saw_cancel = TRUE]
            /\ UNCHANGED run
       ELSE StartAttempt(o)
    /\ UNCHANGED <<nObj, registry, markers, resp, server, catalog>>
    /\ UNCHANGED <<call, sent, logs, content>>

\* Faulty variant: the marker is left behind.
remove_marker_skipped(id) == markers

\* state_dir.remove_marker
remove_marker(id) == markers \ {id}

\* notify_run_complete, with RATD_CALLBACK_URL set: the POST of the payload,
\* or nothing for a run that is not terminal.
notify_run_complete(o) ==
    IF ~is_terminal(o)
    THEN sent[o]
    ELSE Append(sent[o], [status |-> run[o].status, error |-> run[o].error,
                          duration |-> run[o].duration])

\* _execute_with_marker, the finally block: remove_marker, then the callback.
WorkerReturn(o) ==
    /\ boot = "up"
    /\ wk[o].pc = "rm"
    /\ markers' = remove_marker(run[o].run_id)
    /\ sent' = [sent EXCEPT ![o] = notify_run_complete(o)]
    /\ wk' = Leave(o, "done")
    /\ UNCHANGED <<nObj, run, registry, resp, server, catalog>>
    /\ UNCHANGED <<call, logs, content>>

\* ------------------------------------------------------- crash, restart

\* The process dies: memory is lost, the disk and the catalog stay.
Crash ==
    /\ boot # "down"
    /\ crashes < MaxCrashes
    /\ crashes' = crashes + 1
    /\ boot' = "down"
    /\ atDeath' = markers
    /\ run' = [o \in AllObjs |-> NoRun]
    /\ wk' = [o \in Objs |-> NoWorker]
    /\ registry' = [id \in RunIds |-> 0]
    /\ scan' = {}
    /\ crashed' = {}
    /\ resp' = RespNone
    /\ UNCHANGED <<nObj, markers, catalog>>
    /\ UNCHANGED <<call, sent, logs, content>>

\* RunnerServiceImpl.__init__ reaching collect_crashed_runs: the glob.
Start ==
    /\ boot = "down"
    /\ boot' = "collecting"
    /\ scan' = markers
    /\ crashed' = {}
    /\ UNCHANGED <<crashes, atDeath, nObj, run, wk, registry, markers, resp, catalog>>
    /\ UNCHANGED <<call, sent, logs, content>>

Lowest(S) == CHOOSE x \in S : \A y \in S : x <= y

\* What a file <run-id>.json of the state directory can hold: "valid", the
\* object write_marker wrote; "invalid", text json.loads rejects or an
\* object without all five keys (JSONDecodeError, KeyError); "unreadable",
\* JSON that is no object, such as [] or null, for which data["run_id"]
\* raises TypeError, or bytes that are not UTF-8 (UnicodeDecodeError).
MarkerContents == {"valid", "invalid", "unreadable"}

\* collect_crashed_runs, one turn of its loop (lines 78-95).  The except
\* clause names JSONDecodeError, KeyError and OSError; any other exception
\* leaves collect_crashed_runs, _reconcile_crashed_runs and the constructor.
CollectStep ==
    /\ boot = "collecting"
    /\ scan # {}
    /\ LET id == Lowest(scan) IN
       IF content[id] = "valid"
       THEN /\ scan' = scan \ {id}
            /\ crashed' = crashed \cup {id}
            /\ markers' = markers \ {id}
            /\ UNCHANGED boot
       ELSE IF content[id] = "invalid"
       THEN /\ scan' = scan \ {id}
            /\ markers' = markers \ {id}
            /\ UNCHANGED <<boot, crashed>>
       ELSE /\ boot' = "failed"
            /\ scan' = {}
            /\ crashed' = {}
            /\ UNCHANGED markers
    /\ UNCHANGED <<crashes, atDeath, nObj, run, wk, registry, resp, catalog>>
    /\ UNCHANGED <<call, sent, logs, content>>

\* Faulty variant: the reconciled run keeps the default status.
CrashedRunPending(id) == NewRun(id)

\* server.py:189-193, the RunState a crashed run is registered with.
CrashedRun(id) == [NewRun(id) EXCEPT !.status = FAILED, !.error = ErrRestarted]

\* _reconcile_crashed_runs, lines 174-202.
Reconcile ==
    /\ boot = "collecting"
    /\ scan = {}
    /\ boot' = "reconciled"
    /\ registry' = [id \in RunIds |->
                      IF id \in crashed THEN CrashedObj(id) ELSE registry[id]]
    /\ run' = [o \in AllObjs |->
                 IF \E id \in crashed : o = CrashedObj(id)
                 THEN CrashedRun(o - MaxObjs)
                 ELSE run[o]]
    /\ crashed' = {}
    /\ UNCHANGED <<crashes, atDeath, scan, nObj, wk, markers, resp, catalog>>
    /\ UNCHANGED <<call, sent, logs, content>>

\* serve(): server.start() after the constructor returned.
Serve ==
    /\ boot = "reconciled"
    /\ boot' = "up"
    /\ UNCHANGED <<crashes, atDeath, scan, crashed, nObj, run, wk, registry,
                   markers, resp, catalog>>
    /\ UNCHANGED <<call, sent, logs, content>>

\* The server and its workers, any number of runs; execute_pipeline in two
\* steps.
Next ==
    \/ \E id \in RunIds : SubmitPipeline(id)
    \/ \E o \in Objs : SubmitDispatch(o)
    \/ \E id \in RunIds : CancelRun(id)
    \/ \E o \in Objs : Tick(o)
    \/ EvictExpired
    \/ \E o \in Objs : WorkerStart(o)
    \/ \E o \in Objs : ExecuteToGate(o)
    \/ \E o \in Objs : ExecuteResolve(o)
    \/ \E o \in Objs : AfterAttempt(o)
    \/ \E o \in Objs : RetryWait(o)
    \/ \E o \in Objs : WorkerReturn(o)
    \/ Crash
    \/ Start
    \/ CollectStep
    \/ Reconcile
    \/ Serve

Spec == Init /\ [][Next]_vars

\* The quality gate on its own, over every short result list.
InitGate ==
    /\ Idle
    /\ call \in {[fn |-> "has_error_failures", args |-> rs, done |-> FALSE,
                   result |-> FALSE] : rs \in SeqsUpTo(AnyQualityTestResult, MaxResults)}

CallHasErrorFailures ==
    /\ call.fn = "has_error_failures"
    /\ ~call.done
    /\ call' = [call EXCEPT !.done = TRUE,
                            !.result = has_error_failures(call.args)]
    /\ UNCHANGED <<boot, crashes, nObj, run, wk, registry, markers, scan,
                   crashed, atDeath, branches, branchData, main, resp, sent,
                   logs, content>>

NextGate == CallHasErrorFailures

SpecGate == InitGate /\ [][NextGate]_vars

\* ------------------------------------------------------- iceberg writes

\* Most rows of a table or of new_data before a write.
MaxRows == 2

\* SQL NULL in a column.
Null == "NULL"

\* Rows of a table with two key columns and one value column.
Rows == [k1 : {Null, "a", "b"}, k2 : {Null, "a"}, v : {"x", "y"}]

\* unique_key of a pipeline: one column, or two (a composite key).
UniqueKeys == {<<"k1">>, <<"k1", "k2">>}

\* The rows of s at the positions in I, in their order.
RECURSIVE Pick(_, _)
Pick(s, I) ==
    IF I = {}
    THEN <<>>
    ELSE LET m == CHOOSE i \in I : \A j \in I : j <= i
         IN Append(Pick(s, I \ {m}), s[m])

\* `d.k = e.k` in a WHERE clause: true only for equal values that are not NULL.
SqlEq(a, b) == a # Null /\ b # Null /\ a = b

\* " AND ".join(d.k = e.k for k in safe_keys)
KeysMatch(d, e, unique_key) ==
    \A i \in DOMAIN unique_key : SqlEq(d[unique_key[i]], e[unique_key[i]])

\* PARTITION BY key_cols: rows of one partition; NULLs fall together.
SamePartition(r, t, unique_key) ==
    \A i \in DOMAIN unique_key : r[unique_key[i]] = t[unique_key[i]]

\* _dedup_new_data, and the dedup_sql of _merge_iceberg_full_rewrite:
\* ROW_NUMBER() OVER (PARTITION BY key_cols ORDER BY _rn DESC) = 1.
dedup_new_data(new_data, unique_key) ==
    Pick(new_data,
         {i \in DOMAIN new_data :
             \A j \in DOMAIN new_data :
                 j > i => ~SamePartition(new_data[i], new_data[j], unique_key)})

\* SELECT e.* FROM existing e WHERE NOT EXISTS (SELECT 1 FROM d WHERE keys match)
AntiJoin(existing, d, unique_key) ==
    Pick(existing,
         {i \in DOMAIN existing :
             ~\E j \in DOMAIN d : KeysMatch(d[j], existing[i], unique_key)})

\* _merge_iceberg_full_rewrite
merge_iceberg_full_rewrite(existing, new_data, unique_key) ==
    LET deduped == dedup_new_data(new_data, unique_key)
    IN AntiJoin(existing, deduped, unique_key) \o deduped

\* _delete_insert_full_rewrite
delete_insert_full_rewrite(existing, new_data, unique_key) ==
    AntiJoin(existing, new_data, unique_key) \o new_data

\* `col NOT IN (SELECT DISTINCT col FROM new_data)` in a WHERE clause.
SqlNotIn(x, S) == S = {} \/ (x # Null /\ Null \notin S /\ x \notin S)

\* _snapshot_full_rewrite
snapshot_full_rewrite(existing, new_data, partition_column) ==
    Pick(existing,
         {i \in DOMAIN existing :
             SqlNotIn(existing[i][partition_column],
                      {new_data[j][partition_column] : j \in DOMAIN new_data})})
    \o new_data

\* _try_optimized_delete_append: what it can leave and return.  It applies to
\* a single key column only: table.delete(In(key_col, values)), which matches
\* no NULL, then table.append(new_data).  It returns None, and the caller
\* rewrites the table, for a composite key and whenever the library raises:
\* before the delete, or after it.
try_optimized_delete_append(existing, new_data, unique_key) ==
    {[done |-> FALSE, rows |-> existing]} \cup
    IF Len(unique_key) # 1
    THEN {}
    ELSE LET col == unique_key[1]
             values == {new_data[j][col] : j \in DOMAIN new_data} \ {Null}
             deleted == Pick(existing,
                             {i \in DOMAIN existing : existing[i][col] \notin values})
         IN {[done |-> TRUE, rows |-> deleted \o new_data],
             [done |-> FALSE, rows |-> deleted]}

\* A table of the catalog: absent, or its rows.
NoTable == [exists |-> FALSE, rows |-> <<>>]
Table(rows) == [exists |-> TRUE, rows |-> rows]

\* write_iceberg
write_iceberg(data) == Table(data)

\* merge_iceberg: the tables it can leave.
merge_iceberg(table, new_data, unique_key) ==
    IF ~table.exists
    THEN {write_iceberg(new_data)}
    ELSE LET deduped == dedup_new_data(new_data, unique_key)
         IN {IF r.done
             THEN Table(r.rows)
             ELSE Table(merge_iceberg_full_rewrite(r.rows, new_data, unique_key)) :
                 r \in try_optimized_delete_append(table.rows, deduped, unique_key)}

\* delete_insert_iceberg: the tables it can leave.
delete_insert_iceberg(table, new_data, unique_key) ==
    IF ~table.exists
    THEN {write_iceberg(new_data)}
    ELSE {IF r.done
          THEN Table(r.rows)
          ELSE Table(delete_insert_full_rewrite(r.rows, new_data, unique_key)) :
              r \in try_optimized_delete_append(table.rows, new_data, unique_key)}

\* snapshot_iceberg: the tables it can leave.
snapshot_iceberg(table, new_data, partition_column) ==
    IF ~table.exists
    THEN {write_iceberg(new_data)}
    ELSE {IF r.done
          THEN Table(r.rows)
          ELSE Table(snapshot_full_rewrite(r.rows, new_data, partition_column)) :
              r \in try_optimized_delete_append(table.rows, new_data,
                                                <<partition_column>>)}

\* The merge strategies whose write is documented as safe to repeat.
WriteFns == {"merge_iceberg", "delete_insert_iceberg", "snapshot_iceberg"}

\* _phase3_write_iceberg calling the write of the configured strategy.
ApplyWrite(c) ==
    IF c.fn = "merge_iceberg"
    THEN merge_iceberg(c.table, c.new_data, c.unique_key)
    ELSE IF c.fn = "delete_insert_iceberg"
    THEN delete_insert_iceberg(c.table, c.new_data, c.unique_key)
    ELSE snapshot_iceberg(c.table, c.new_data, c.unique_key[1])

\* A write strategy on its own: any initial table, any new_data with a row
\* (_phase3_write_iceberg skips the write of zero rows).
InitWrite ==
    /\ Idle
    /\ call \in {[fn |-> f, unique_key |-> uk, new_data |-> nd, before |-> t,
                   table |-> t, once |-> t, runs |-> 0] :
                     f \in WriteFns, uk \in UniqueKeys,
                     nd \in SeqsUpTo(Rows, MaxRows) \ {<<>>},
                     t \in {NoTable} \cup {Table(r) : r \in SeqsUpTo(Rows, MaxRows)}}

\* The write is executed, a first and a second time with the same new_data.
WriteTable ==
    /\ call.fn \in WriteFns
    /\ call.runs < 2
    /\ \E t \in ApplyWrite(call) :
          call' = [call EXCEPT !.table = t, !.runs = @ + 1,
                               !.once = IF call.runs = 0 THEN t ELSE @]
    /\ UNCHANGED <<boot, crashes, nObj, run, wk, registry, markers, scan,
                   crashed, atDeath, branches, branchData, main, resp, sent,
                   logs, content>>

NextWrite == WriteTable

SpecWrite == InitWrite /\ [][NextWrite]_vars

\* ------------------------------------------------------------ StreamLogs

\* Most records a run logs.
MaxLogs == 2

\* models._MAX_LOG_ENTRIES, the maxlen of RunState.logs (10_000 in the
\* source, scaled down so that a run can log more than the buffer holds).
MAX_LOG_ENTRIES == 1

\* RunState.logs after n calls of add_log, each record named by its number
\* in append order: deque(maxlen) keeps the newest MAX_LOG_ENTRIES records.
Deque(n) ==
    LET len == IF n < MAX_LOG_ENTRIES THEN n ELSE MAX_LOG_ENTRIES
    IN [i \in 1..len |-> n - len + i]

\* RunState.get_logs_from: list(islice(self.logs, cursor, None)), the
\* records at the positions cursor, cursor+1, ... of the buffer.
get_logs_from(o, cursor) ==
    LET d == Deque(logs[o])
    IN IF cursor >= Len(d) THEN <<>> ELSE SubSeq(d, cursor + 1, Len(d))

\* No StreamLogs request is open.
NoStream == [fn |-> "StreamLogs", pc |-> "idle", o |-> 0, follow |-> FALSE,
             cursor |-> 0, got |-> <<>>, live |-> FALSE, code |-> ""]

\* RunLogger._log -> RunState.add_log, called throughout execute_pipeline.
add_log(o) ==
    /\ boot = "up"
    /\ wk[o].pc \in {"p0", "p1", "p2", "p3", "p4", "p5", "post", "fin", "finx"}
    /\ logs[o] < MaxLogs
    /\ logs' = [logs EXCEPT ![o] = @ + 1]
    /\ UNCHANGED <<nObj, run, wk, registry, markers, resp, server, catalog>>
    /\ UNCHANGED <<call, sent, content>>

\* StreamLogs, lines 432-438: the lookup of the run.
StreamLogsOpen(id, follow) ==
    /\ boot = "up"
    /\ call.pc = "idle"
    /\ IF registry[id] = 0
       THEN call' = [call EXCEPT !.pc = "end", !.code = "NOT_FOUND"]
       ELSE call' = [call EXCEPT !.pc = "read", !.o = registry[id],
                                 !.follow = follow, !.code = "OK",
                                 !.live = ~is_terminal(registry[id])]
    /\ UNCHANGED <<nObj, run, wk, registry, markers, resp, server, catalog>>
    /\ UNCHANGED <<sent, logs, content>>

\* StreamLogs, lines 441-453: get_logs_from(cursor) and the yield of each
\* new entry.
StreamLogsRead ==
    /\ call.pc = "read"
    /\ LET new_entries == get_logs_from(call.o, call.cursor)
       IN call' = [call EXCEPT !.pc = "check",
                               !.cursor = @ + Len(new_entries),
                               !.got = @ \o new_entries]
    /\ UNCHANGED <<nObj, run, wk, registry, markers, resp, server, catalog>>
    /\ UNCHANGED <<sent, logs, content>>

\* Faulty variant: only a request without follow stops.
StreamStopsWithoutFollowOnly(follow, o) == ~follow

\* StreamLogs, line 456: `not request.follow or run.is_terminal()`.
StreamStops(follow, o) == ~follow \/ is_terminal(o)

\* StreamLogs, lines 455-457: stop, or go on to wait.
StreamLogsCheck ==
    /\ call.pc = "check"
    /\ call' = [call EXCEPT !.pc = IF StreamStops(call.follow, call.o)
                                   THEN "end" ELSE "wait"]
    /\ UNCHANGED <<nObj, run, wk, registry, markers, resp, server, catalog>>
    /\ UNCHANGED <<sent, logs, content>>

\* StreamLogs, line 460: wait_for_logs(timeout=1.0) returns, notified by
\* add_log or after the second.
StreamLogsWait ==
    /\ call.pc = "wait"
    /\ call' = [call EXCEPT !.pc = "read"]
    /\ UNCHANGED <<nObj, run, wk, registry, markers, resp, server, catalog>>
    /\ UNCHANGED <<sent, logs, content>>

\* The steps of the generator once the request is open.
StreamLogs == StreamLogsRead \/ StreamLogsCheck \/ StreamLogsWait

InitStream == Idle /\ call = NoStream

\* One submission on a server that stays up, its worker logging, and one
\* StreamLogs request.
NextStream ==
    \/ \E id \in RunIds : nObj = 0 /\ SubmitPipeline(id)
    \/ \E o \in Objs : SubmitDispatch(o)
    \/ \E id \in RunIds : CancelRun(id)
    \/ \E o \in Objs : WorkerStart(o)
    \/ \E o \in Objs : Phase0(o)
    \/ \E o \in Objs : Phase1(o)
    \/ \E o \in Objs : Phase2(o)
    \/ \E o \in Objs : Phase3(o)
    \/ \E o \in Objs : Phase4(o)
    \/ \E o \in Objs : Phase5(o)
    \/ \E o \in Objs : PostSuccess(o)
    \/ \E o \in Objs : Cleanup(o)
    \/ \E o \in Objs : AfterAttempt(o)
    \/ \E o \in Objs : RetryWait(o)
    \/ \E o \in Objs : WorkerReturn(o)
    \/ \E o \in Objs : add_log(o)
    \/ \E id \in RunIds, follow \in BOOLEAN : StreamLogsOpen(id, follow)
    \/ StreamLogsRead
    \/ StreamLogsCheck
    \/ StreamLogsWait

\* The gRPC thread that serves the request keeps running.
SpecStream == InitStream /\ [][NextStream]_vars /\ WF_vars(StreamLogs)

\* ------------------------------------------------------- startup alone

\* A process about to start on a state directory that holds any marker
\* files, each with any content.
InitRestart ==
    /\ boot = "down"
    /\ crashes = 0
    /\ nObj = 0
    /\ run = [o \in AllObjs |-> NoRun]
    /\ wk = [o \in Objs |-> NoWorker]
    /\ registry = [id \in RunIds |-> 0]
    /\ markers \in SUBSET RunIds
    /\ scan = {}
    /\ crashed = {}
    /\ atDeath = markers
    /\ branches = {}
    /\ branchData = [id \in RunIds |-> {}]
    /\ main = {}
    /\ resp = RespNone
    /\ sent = [o \in Objs |-> <<>>]
    /\ logs = [o \in Objs |-> 0]
    /\ content \in [RunIds -> MarkerContents]
    /\ \A id \in RunIds \ markers : content[id] = "valid"
    /\ call = NoCall

\* The constructor of RunnerServiceImpl up to serve(), the process dying at
\* any point, and the requests about the reconciled runs.
NextRestart ==
    \/ Start
    \/ CollectStep
    \/ Reconcile
    \/ Serve
    \/ Crash
    \/ \E id \in RunIds : CancelRun(id)

SpecRestart == InitRestart /\ [][NextRestart]_vars

\* One submission, followed through the six phases of execute_pipeline and
\* its catalog branch, with the whole server around it.
NextRun ==
    \/ \E id \in RunIds : nObj = 0 /\ SubmitPipeline(id)
    \/ \E o \in Objs : SubmitDispatch(o)
    \/ \E id \in RunIds : CancelRun(id)
    \/ \E o \in Objs : Tick(o)
    \/ EvictExpired
    \/ \E o \in Objs : WorkerStart(o)
    \/ \E o \in Objs : Phase0(o)
    \/ \E o \in Objs : Phase1(o)
    \/ \E o \in Objs : Phase2(o)
    \/ \E o \in Objs : Phase3(o)
    \/ \E o \in Objs : Phase4(o)
    \/ \E o \in Objs : Phase5(o)
    \/ \E o \in Objs : PostSuccess(o)
    \/ \E o \in Objs : Cleanup(o)
    \/ \E o \in Objs : AfterAttempt(o)
    \/ \E o \in Objs : RetryWait(o)
    \/ \E o \in Objs : WorkerReturn(o)
    \/ Crash
    \/ Start
    \/ CollectStep
    \/ Reconcile
    \/ Serve

SpecRun == Init /\ [][NextRun]_vars

\* ------------------------------------------------- identifiers as text

\* One submission whose run identifier may be text that is no valid part of
\* a branch name.
InitBoundary ==
    /\ Idle
    /\ call \in {[fn |-> "SubmitPipeline", unsafe |-> S] : S \in SUBSET RunIds}

SpecBoundary == InitBoundary /\ [][NextRun]_vars

\* ------------------------------------------------------ catalog client

\* retry_on_transient, its defaults: max_retries and initial_backoff (the
\* latter in milliseconds).
max_retries == 3
initial_backoff == 500

\* What urlopen does with one request: the response, or the exception.
Responses ==
    {"ok", "HTTPError 503", "HTTPError 400", "HTTPError 404", "HTTPError 409",
     "URLError", "TimeoutError"}

\* _is_transient_error
_is_transient_error(exc) == exc \in {"HTTPError 503", "URLError", "TimeoutError"}

\* retry_on_transient, line 68: initial_backoff * (2**attempt)
Backoff(attempt) ==
    IF attempt = 0 THEN initial_backoff
    ELSE IF attempt = 1 THEN 2 * initial_backoff
    ELSE 4 * initial_backoff

\* The functions of nessie.py that send requests to the catalog.
CatalogFns == {"create_branch", "merge_branch", "delete_branch", "_get_reference"}

\* Faulty variant: no function lets a 404 pass.
Tolerates404Never(fn) == FALSE

\* delete_branch, the two `if e.code == 404: return`; merge_branch and
\* create_branch have no such handler.
Tolerates404(fn) == fn = "delete_branch"

\* The call ends.
Returned(c) == [c EXCEPT !.pc = "done", !.result = "returned"]
Raises(c, exc) == [c EXCEPT !.pc = "done", !.result = "raised", !.exc = exc]

\* An exception reaches the wrapper of fn itself (lines 62-86): raised at
\* once, or the body is run again after the delay, or raised after the last
\* attempt.  delete_branch is not under @retry_on_transient(): it raises.
WrapperOf(c, exc) ==
    IF c.fn = "delete_branch" \/ ~_is_transient_error(exc)
    THEN Raises(c, exc)
    ELSE IF c.outer < max_retries
    THEN [c EXCEPT !.pc = "ref", !.outer = @ + 1, !.inner = 0,
                   !.sleeps = Append(@, Backoff(c.outer))]
    ELSE Raises(c, exc)

\* An exception leaves _get_reference inside the body of fn.
LookupRaised(c, exc) ==
    IF c.fn = "_get_reference" THEN Raises(c, exc)
    ELSE IF Tolerates404(c.fn) /\ exc = "HTTPError 404" THEN Returned(c)
    ELSE IF c.fn = "delete_branch" THEN Raises(c, exc)
    ELSE WrapperOf([c EXCEPT !.inner = 0], exc)

\* _get_reference under its wrapper sends one GET; r is what urlopen does.
CatalogLookup(r) ==
    /\ call.fn \in CatalogFns
    /\ call.pc \in {"ref", "ref409"}
    /\ LET c == [call EXCEPT !.sent[call.pc] = @ + 1, !.last = r]
       IN call' =
            IF r = "ok"
            THEN IF c.fn = "_get_reference" \/ c.pc = "ref409"
                 THEN Returned(c)
                 ELSE [c EXCEPT !.pc = "req", !.inner = 0]
            ELSE IF ~_is_transient_error(r) THEN LookupRaised(c, r)
            ELSE IF c.inner < max_retries
            THEN [c EXCEPT !.inner = @ + 1,
                           !.sleeps = Append(@, Backoff(c.inner))]
            ELSE LookupRaised(c, r)
    /\ UNCHANGED <<nObj, run, wk, registry, markers, resp, server, catalog>>
    /\ UNCHANGED <<sent, logs, content>>

\* The request of the function itself: the POST of create_branch or
\* merge_branch, the DELETE of delete_branch.
CatalogRequest(r) ==
    /\ call.fn \in CatalogFns
    /\ call.pc = "req"
    /\ LET c == [call EXCEPT !.sent.req = @ + 1, !.last = r]
       IN call' =
            IF r = "ok" THEN Returned(c)
            ELSE IF c.fn = "create_branch" /\ r = "HTTPError 409"
            THEN [c EXCEPT !.pc = "ref409", !.inner = 0]
            ELSE IF Tolerates404(c.fn) /\ r = "HTTPError 404" THEN Returned(c)
            ELSE WrapperOf(c, r)
    /\ UNCHANGED <<nObj, run, wk, registry, markers, resp, server, catalog>>
    /\ UNCHANGED <<sent, logs, content>>

\* A call of a function about to send its first request, the reference
\* lookup.  outer and inner are the attempts of the wrapper of fn and of the
\* wrapper of _get_reference, sent the requests sent so far, sleeps the
\* delays.
InitCatalog ==
    /\ Idle
    /\ call \in {[fn |-> fn, pc |-> "ref", outer |-> 0, inner |-> 0,
                   sleeps |-> <<>>,
                   sent |-> [ref |-> 0, req |-> 0, ref409 |-> 0],
                   last |-> "", result |-> "", exc |-> ""] :
                     fn \in CatalogFns}

NextCatalog ==
    \/ \E r \in Responses : CatalogLookup(r)
    \/ \E r \in Responses : CatalogRequest(r)

\* One call of a function of the catalog client, the catalog answering each
\* request in any way.
SpecCatalog == InitCatalog /\ [][NextCatalog]_vars

\* ------------------------------------------------ query service catalog

\* Most commits on the main branch of the catalog.
MaxCommits == 2

\* The tables (layer, name) of the namespace, and what a table has in the
\* catalog or in the engine: one of two paths, or "absent".
TableKeys == {1, 2}
PathOrAbsent == {"s3://a", "s3://b", "absent"}

\* A commit on main: a table is created, moved to another path or dropped.
CatalogCommit ==
    /\ call.fn = "register_tables"
    /\ call.hash < MaxCommits
    /\ \E t \in TableKeys, p \in PathOrAbsent :
          /\ p # call.nessie[t]
          /\ call' = [call EXCEPT !.nessie[t] = p, !.hash = @ + 1]
    /\ UNCHANGED <<nObj, run, wk, registry, markers, resp, server, catalog>>
    /\ UNCHANGED <<sent, logs, content>>

\* _get_nessie_commit_hash: the hash of main, or "" when the request fails.
_get_nessie_commit_hash == {call.hash, 0}

\* register_tables, lines 127-141 and 162: the hash test, discover_tables,
\* old_keys - new_keys.  discover_tables raising ends the refresh.
RefreshBegin ==
    /\ call.fn = "register_tables"
    /\ call.pc = "idle"
    /\ \E current_hash \in _get_nessie_commit_hash :
          IF current_hash # 0 /\ current_hash = call.last_commit_hash
          THEN call' = [call EXCEPT !.failed = FALSE]
          ELSE \/ call' = [call EXCEPT !.failed = TRUE]
               \/ LET new_keys == {t \in TableKeys : call.nessie[t] # "absent"}
                  IN call' = [call EXCEPT !.pc = "register",
                                          !.current_hash = current_hash,
                                          !.found = call.nessie, !.i = 1,
                                          !.drop = call.tables \ new_keys,
                                          !.failed = FALSE]
    /\ UNCHANGED <<nObj, run, wk, registry, markers, resp, server, catalog>>
    /\ UNCHANGED <<sent, logs, content>>

\* register_tables, lines 147-159, one pass of the loop over the tables
\* found: the table is skipped, or register_view creates or replaces its
\* view, or register_view raises, before or after its first CREATE OR
\* REPLACE VIEW, and the refresh ends there.
RegisterStep ==
    /\ call.fn = "register_tables"
    /\ call.pc = "register"
    /\ LET t == call.i
       IN IF t \notin TableKeys
          THEN call' = [call EXCEPT !.pc = "drop"]
          ELSE IF call.found[t] = "absent" \/ call.table_paths[t] = call.found[t]
          THEN call' = [call EXCEPT !.i = @ + 1]
          ELSE \/ call' = [call EXCEPT !.views[t] = call.found[t], !.i = @ + 1]
               \/ call' = [call EXCEPT !.pc = "idle", !.failed = TRUE]
               \/ call' = [call EXCEPT !.views[t] = call.found[t],
                                       !.pc = "idle", !.failed = TRUE]
    /\ UNCHANGED <<nObj, run, wk, registry, markers, resp, server, catalog>>
    /\ UNCHANGED <<sent, logs, content>>

\* register_tables, lines 161-163, one pass of the loop over the stale
\* keys: drop_view drops the view, or raises.
DropStep ==
    /\ call.fn = "register_tables"
    /\ call.pc = "drop"
    /\ IF call.drop = {}
       THEN call' = [call EXCEPT !.pc = "store"]
       ELSE \E t \in call.drop :
               \/ call' = [call EXCEPT !.views[t] = "absent", !.drop = @ \ {t}]
               \/ call' = [call EXCEPT !.pc = "idle", !.failed = TRUE]
    /\ UNCHANGED <<nObj, run, wk, registry, markers, resp, server, catalog>>
    /\ UNCHANGED <<sent, logs, content>>

\* register_tables, lines 165-169: the refresh is recorded.
RefreshEnd ==
    /\ call.fn = "register_tables"
    /\ call.pc = "store"
    /\ call' = [call EXCEPT
                  !.pc = "idle",
                  !.tables = {t \in TableKeys : call.found[t] # "absent"},
                  !.table_paths = call.found,
                  !.last_commit_hash =
                      IF call.current_hash # 0 THEN call.current_hash ELSE @]
    /\ UNCHANGED <<nObj, run, wk, registry, markers, resp, server, catalog>>
    /\ UNCHANGED <<sent, logs, content>>

\* NessieCatalog after __init__ with an engine without views, in front of a
\* catalog in some state.  nessie and hash are the catalog (the tables of
\* main and its commit hash, 0 standing for the empty string), views the
\* views of the engine; found, current_hash, i and drop are the locals of
\* register_tables.
InitQuery ==
    /\ Idle
    /\ LET none == [t \in TableKeys |-> "absent"]
       IN call \in {[fn |-> "register_tables", pc |-> "idle", nessie |-> n,
                      hash |-> 1, views |-> none, tables |-> {},
                      table_paths |-> none, last_commit_hash |-> 0,
                      current_hash |-> 0, found |-> none, i |-> 1,
                      drop |-> {}, failed |-> FALSE] :
                        n \in [TableKeys -> PathOrAbsent]}

\* The first register_tables of the server, then those of refresh_loop,
\* while the catalog changes.
NextQuery ==
    \/ CatalogCommit
    \/ RefreshBegin
    \/ RegisterStep
    \/ DropStep
    \/ RefreshEnd

SpecQuery == InitQuery /\ [][NextQuery]_vars

\* ------------------------------------------------------- dependency DAG

\* Most pipelines of a DAG.
MaxNodes == 3

\* The pipelines of the DAG (its keys) and one that is referenced without
\* being a key; NoParent stands for None.
Nodes == 1..MaxNodes
External == 0
NoParent == MaxNodes + 1

\* _reconstruct_cycle, the while loop: from node up the parent links until
\* the target, a missing parent or a node seen before.
RECURSIVE WalkParents(_, _, _, _, _)
WalkParents(path, node, seen, target, parent) ==
    IF node = target
    THEN path
    ELSE LET p == parent[node]
         IN IF p = NoParent \/ p \in seen
            THEN path
            ELSE WalkParents(Append(path, p), p, seen \cup {p}, target, parent)

\* _reconstruct_cycle: the walk, path.append(target), path.reverse()
_reconstruct_cycle(current, target, parent) ==
    LET path == Append(WalkParents(<<current>>, current, {current}, target,
                                   parent),
                       target)
    IN [i \in 1..Len(path) |-> path[Len(path) + 1 - i]]

\* detect_cycles, lines 134-137: the loop over the keys of the DAG.
DagOuter ==
    /\ call.fn = "detect_cycles"
    /\ call.pc = "outer"
    /\ LET n == call.next
       IN IF n \notin Nodes
          THEN call' = [call EXCEPT !.pc = "done"]
          ELSE IF call.color[n] = "white"
          THEN call' = [call EXCEPT !.parent[n] = NoParent,
                                    !.stack = <<<<n, FALSE>>>>,
                                    !.pc = "dfs", !.next = @ + 1]
          ELSE call' = [call EXCEPT !.next = @ + 1]
    /\ UNCHANGED <<nObj, run, wk, registry, markers, resp, server, catalog>>
    /\ UNCHANGED <<sent, logs, content>>

\* _dfs, lines 103-118: one entry is popped from the stack.
DagPop ==
    /\ call.fn = "detect_cycles"
    /\ call.pc = "dfs"
    /\ IF call.stack = <<>>
       THEN call' = [call EXCEPT !.pc = "outer"]
       ELSE LET top == call.stack[Len(call.stack)]
                rest == SubSeq(call.stack, 1, Len(call.stack) - 1)
                node == top[1]
            IN IF top[2]
               THEN call' = [call EXCEPT !.stack = rest, !.color[node] = "black"]
               ELSE IF call.color[node] \in {"black", "gray"}
               THEN call' = [call EXCEPT !.stack = rest]
               ELSE call' = [call EXCEPT !.color[node] = "gray",
                                         !.stack = Append(rest, <<node, TRUE>>),
                                         !.node = node,
                                         !.deps = call.dag[node],
                                         !.pc = "deps"]
    /\ UNCHANGED <<nObj, run, wk, registry, markers, resp, server, catalog>>
    /\ UNCHANGED <<sent, logs, content>>

\* _dfs, lines 120-132: one dependency of the node, in the order the set
\* gives them.
DagDep ==
    /\ call.fn = "detect_cycles"
    /\ call.pc = "deps"
    /\ IF call.deps = {}
       THEN call' = [call EXCEPT !.pc = "dfs"]
       ELSE \E dep \in call.deps :
               LET c == [call EXCEPT !.deps = @ \ {dep}]
               IN IF dep \notin Nodes
                  THEN call' = c
                  ELSE IF call.color[dep] = "gray"
                  THEN LET cycle == _reconstruct_cycle(call.node, dep, call.parent)
                       IN call' = IF cycle # <<>>
                                  THEN [c EXCEPT !.cycles = Append(@, cycle)]
                                  ELSE c
                  ELSE IF call.color[dep] = "white"
                  THEN call' = [c EXCEPT !.parent[dep] = call.node,
                                         !.stack = Append(@, <<dep, FALSE>>)]
                  ELSE call' = c
    /\ UNCHANGED <<nObj, run, wk, registry, markers, resp, server, catalog>>
    /\ UNCHANGED <<sent, logs, content>>

\* detect_cycles called with a DAG: every node white, no parent known, the
\* outer loop at the first key.
InitDag ==
    /\ Idle
    /\ call \in {[fn |-> "detect_cycles", pc |-> "outer", dag |-> dag,
                   color |-> [n \in Nodes |-> "white"],
                   parent |-> [n \in Nodes |-> NoParent],
                   cycles |-> <<>>, stack |-> <<>>, next |-> 1, node |-> 0,
                   deps |-> {}] :
                     dag \in [Nodes -> SUBSET (Nodes \cup {External})]}

NextDag == DagOuter \/ DagPop \/ DagDep

\* detect_cycles on any DAG of the size.
SpecDag == InitDag /\ [][NextDag]_vars

\* ------------------------------------------------------------ properties

\* Positions of a worker between the marker write and its return.
Dispatched == {"queued", "p0", "p1", "p2", "p3", "p4", "p5", "post", "fin",
               "finx", "ret", "wait", "rm"}
\* Positions of a worker that has begun executing and has not returned.
Begun == Dispatched \ {"queued"}
\* Positions at a phase boundary of execute_pipeline.
Boundaries == {"p0", "p1", "p2", "p3", "p4", "p5"}
\* The process keeps running across the step.
Alive == boot = "up" /\ boot' = "up"

\* C1: the number of registry runs that are Pending or Running never exceeds
\* the configured concurrency cap.
C1_AdmissionCap == active_run_count <= MaxConcurrentRuns

\* C2: a SubmitPipeline that finds the registry at the cap answers
\* resource-exhausted with the current and maximum counts, and changes
\* nothing: no registry entry, no marker, no work item, no run object.
C2_RejectionHasNoEffect ==
    [][\A id \in RunIds :
         (SubmitPipeline(id) /\ active_run_count >= MaxConcurrentRuns) =>
            /\ resp'.op = "submit"
            /\ resp'.code = "RESOURCE_EXHAUSTED"
            /\ resp'.current = active_run_count
            /\ resp'.max = MaxConcurrentRuns
            /\ registry' = registry
            /\ markers' = markers
            /\ wk' = wk
            /\ run' = run
            /\ nObj' = nObj]_vars

\* A submission was rejected at the cap while a run was in flight.
C2_Witness ==
    /\ resp.op = "submit"
    /\ resp.code = "RESOURCE_EXHAUSTED"
    /\ resp.current >= resp.max
    /\ active_run_count = MaxConcurrentRuns
    /\ nObj = MaxConcurrentRuns

\* A result list holds a test of severity error that did not pass.
ErrorTestFailed(results) ==
    \E i \in DOMAIN results :
        results[i].severity = "error" /\ results[i].status # "pass"

\* C3 as stated: once a quality test of severity error has failed, the run
\* is Failed and main holds nothing the run wrote.
C3_MainUntouched ==
    \A o \in Objs :
        (ErrorTestFailed(wk[o].gate) /\ wk[o].pc \in {"fin", "ret"}) =>
            /\ run[o].status = FAILED
            /\ Write(o) \notin main

\* C3, amended: when a quality test of severity error has failed, Phase 5
\* ends the attempt Failed with the quality error and leaves main as it
\* found it; if Phase 0 created the branch, main holds nothing the attempt
\* wrote.
C3_GateBlocksMerge ==
    [][\A o \in Objs :
         (ErrorTestFailed(wk[o].gate) /\ Phase5(o)) =>
            /\ run'[o].status = FAILED
            /\ run'[o].error = ErrQuality
            /\ main' = main
            /\ wk[o].branch_created => Write(o) \notin main']_vars

\* An attempt on its own branch was failed by the gate, its write held by
\* the branch or already dropped with it.
C3_Witness ==
    \E o \in Objs :
        /\ ErrorTestFailed(wk[o].gate)
        /\ wk[o].pc = "fin"
        /\ wk[o].branch_created
        /\ run[o].status = FAILED
        /\ run[o].error = ErrQuality
        /\ Write(o) \in branchData[run[o].run_id]
        /\ Write(o) \notin main

\* C4: an attempt that created its branch is Success only with its writes
\* merged into main, and an attempt whose merge raised is Failed with the
\* merge error.
C4_SuccessOnlyAfterMerge ==
    \A o \in Objs :
        /\ (wk[o].branch_created /\ run[o].status = SUCCESS) =>
                ("merge" \in wk[o].calls /\ Written(o) \subseteq main)
        /\ run[o].error = ErrMerge => run[o].status = FAILED
        /\ (wk[o].pc = "post" /\ wk[o].branch_created) =>
                ("merge" \in wk[o].calls /\ Written(o) \subseteq main)

\* A run on its own branch is Success and its write is in main.
C4_Witness ==
    \E o \in Objs :
        /\ wk[o].branch_created
        /\ ~ErrorTestFailed(wk[o].gate)
        /\ run[o].status = SUCCESS
        /\ "merge" \in wk[o].calls
        /\ Write(o) \in main

C6_CrashedRunsReconciled ==
    boot = "reconciled" =>
        \A id \in atDeath :
            /\ registry[id] # 0
            /\ run[registry[id]].status = FAILED
            /\ run[registry[id]].error = ErrRestarted
            /\ GetRunStatus(id) =
                 [code |-> "OK", status |-> FAILED, error |-> ErrRestarted,
                  duration |-> FALSE]

\* A restart reconciled a run that was in flight when the process died.
C6_Witness ==
    /\ boot = "reconciled"
    /\ atDeath # {}
    /\ \A id \in atDeath : GetRunStatus(id).status = FAILED

\* C7 as stated: a status only moves Pending -> Running -> Success, Failed
\* or Cancelled, and a terminal status is never left.
C7_StatusMonotone ==
    [][Alive =>
         \A o \in Objs :
            run'[o].status # run[o].status =>
                <<run[o].status, run'[o].status>> \in
                    {<<PENDING, RUNNING>>, <<RUNNING, SUCCESS>>,
                     <<RUNNING, FAILED>>, <<RUNNING, CANCELLED>>}]_vars

\* C7, amended: a status moves Pending -> Running -> Success, Failed or
\* Cancelled; the one move out of a terminal status is Failed -> Running,
\* made by the retry wrapper at the end of its delay; Success and Cancelled
\* are never left.
C7_StatusMovesWithRetry ==
    [][Alive =>
         \A o \in Objs :
            run'[o].status # run[o].status =>
                \/ <<run[o].status, run'[o].status>> \in
                      {<<PENDING, RUNNING>>, <<RUNNING, SUCCESS>>,
                       <<RUNNING, FAILED>>, <<RUNNING, CANCELLED>>}
                \/ /\ run[o].status = FAILED
                   /\ run'[o].status = RUNNING
                   /\ wk[o].pc = "wait"
                   /\ wk[o].attempt >= 1]_vars

\* A failed run is Running again, in a retry attempt.
C7_Witness ==
    \E o \in Objs : run[o].status = RUNNING /\ wk[o].attempt >= 1

\* C8: a worker that stands at the boundary before any of the six phases
\* with the cancellation signal set does not start the phase: its step ends
\* the run Cancelled with the fixed message.
C8_NoPhaseAfterCancel ==
    [][Alive =>
         \A o \in Objs :
            (run[o].cancel_event /\ wk[o].pc \in Boundaries
               /\ wk'[o].pc # wk[o].pc) =>
                /\ run'[o].status = CANCELLED
                /\ run'[o].error = ErrCancelled]_vars

\* C9: a worker that stopped because it observed the cancellation signal,
\* at a phase boundary or in the retry delay, leaves the run Cancelled.
C9_CancelObservedIsCancelled ==
    \A o \in Objs :
        (wk[o].saw_cancel /\ wk[o].pc \in {"rm", "done"}) =>
            run[o].status = CANCELLED

\* C10: a CancelRun for a registered run that waits out a retry delay sets
\* the run's cancellation signal and answers cancelled=true.
C10_CancelDuringRetryDelay ==
    [][\A o \in Objs :
         (wk[o].pc = "wait" /\ registry[run[o].run_id] = o
            /\ CancelRun(run[o].run_id)) =>
                /\ run'[o].cancel_event
                /\ resp'.code = "cancelled=true"]_vars

\* C11: execute_pipeline is entered again only from the retry delay of a
\* run whose last attempt ended Failed, never after Success or Cancelled,
\* and the number of retries never exceeds the configured max_retries.
C11_RetryOnlyAfterFailed ==
    /\ [](\A o \in Objs :
            /\ wk[o].attempt <= wk[o].max_retries
            /\ wk[o].max_retries <= MaxRetries
            /\ wk[o].pc = "wait" => run[o].status = FAILED)
    /\ [][\A o \in Objs :
            (wk[o].pc \notin {"queued", "p0"} /\ wk'[o].pc = "p0") =>
                /\ wk[o].pc = "wait"
                /\ run[o].status = FAILED
                /\ wk[o].attempt >= 1
                /\ wk'[o].attempt = wk[o].attempt]_vars

\* A run succeeded in its last allowed retry.
C11_Witness ==
    \E o \in Objs :
        /\ wk[o].pc = "rm"
        /\ wk[o].attempt >= 1
        /\ wk[o].attempt = wk[o].max_retries
        /\ run[o].status = SUCCESS

\* C12: a run that failed because neither pipeline.py nor pipeline.sql
\* exists stays Failed with the source-absent error: it is never retried.
C12_SourceAbsentNeverRetried ==
    [][Alive =>
         \A o \in Objs :
            (run[o].status = FAILED /\ run[o].error = ErrSourceAbsent) =>
                /\ run'[o].status = FAILED
                /\ run'[o].error = ErrSourceAbsent]_vars

\* C13: when execute_pipeline is over, whatever a phase threw, the run has
\* a terminal status; it is never left Running.
C13_NeverLeftRunning ==
    \A o \in Objs :
        wk[o].pc \in {"ret", "wait", "rm", "done"} => is_terminal(o)

\* Positions inside the try block of execute_pipeline.
InPhases == Boundaries \cup {"post"}
\* Positions in the finally block of execute_pipeline.
InFinally == {"fin", "finx"}

\* C14: every way out of the phases leads into the finally block, and the
\* finally block leaves with a delete of the branch sent if Phase 0 created
\* it, the query-engine session closed if it was opened, and the duration
\* recorded on the run.
C14_CleanupOnEveryExit ==
    /\ [][Alive =>
            \A o \in Objs :
               (wk[o].pc \in InPhases /\ wk'[o].pc \notin InPhases) =>
                   wk'[o].pc \in InFinally]_vars
    /\ [][Alive =>
            \A o \in Objs :
               (wk[o].pc \in InFinally /\ wk'[o].pc \notin InFinally) =>
                   /\ wk[o].branch_created => "delete" \in wk'[o].calls
                   /\ wk'[o].engine # "open"
                   /\ run'[o].duration]_vars

\* A cancelled attempt left the finally block: delete sent, session closed,
\* duration recorded.
C14_Witness ==
    \E o \in Objs :
        /\ wk[o].pc = "ret"
        /\ run[o].status = CANCELLED
        /\ wk[o].branch_created
        /\ "delete" \in wk[o].calls
        /\ wk[o].engine = "closed"
        /\ run[o].duration

\* C15: an attempt whose branch creation failed goes on as Running with its
\* branch set to main: its write lands in main and in no branch, its quality
\* tests read main, and it sends no merge and no delete.
C15_FallbackToMain ==
    /\ [](\A o \in Objs :
            wk[o].branch_name = "main" =>
                /\ ~wk[o].branch_created
                /\ wk[o].calls \cap BranchCalls = {}
                /\ wk[o].tested \in {"none", "main"}
                /\ wk[o].pc \in {"p4", "p5", "post"} => Written(o) \subseteq main
                /\ \A id \in RunIds : Write(o) \notin branchData[id])
    /\ [][\A o \in Objs :
            (wk[o].branch_name = "" /\ wk'[o].branch_name = "main") =>
                /\ run'[o].status = RUNNING
                /\ wk'[o].pc = "p1"]_vars

\* An attempt without a branch succeeded, its write in main.
C15_Witness ==
    \E o \in Objs :
        /\ wk[o].branch_name = "main"
        /\ wk[o].pc = "ret"
        /\ run[o].status = SUCCESS
        /\ wk[o].tested = "main"
        /\ wk[o].calls \cap BranchCalls = {}
        /\ wk[o].row_count > 0
        /\ Write(o) \in main

\* C16: the gate fails exactly when some result of severity error has
\* status fail or error; results of severity warn never fail it, whatever
\* their status, and the empty list passes.
C16_GateIffErrorFailure ==
    (call.fn = "has_error_failures" /\ call.done) =>
        /\ call.result <=>
              \E i \in DOMAIN call.args :
                 /\ call.args[i].severity = "error"
                 /\ call.args[i].status \in {"fail", "error"}
        /\ (\A i \in DOMAIN call.args : call.args[i].severity = "warn") =>
              ~call.result

\* The gate failed a list on a test that errored, next to a warn failure
\* and an error-severity pass.
C16_Witness ==
    /\ call.fn = "has_error_failures"
    /\ call.done
    /\ call.result
    /\ Len(call.args) = 3
    /\ \E i \in DOMAIN call.args :
          call.args[i].severity = "error" /\ call.args[i].status = "error"
    /\ \E i \in DOMAIN call.args :
          call.args[i].severity = "warn" /\ call.args[i].status = "fail"
    /\ \A i \in DOMAIN call.args : call.args[i].status # "fail" \/
                                     call.args[i].severity = "warn"

\* C19: while the server is up, a run leaves the registry only when it is
\* terminal and older than the TTL; a Pending or Running run never does,
\* however old it is.
C19_EvictsOnlyExpiredTerminal ==
    [][(boot = "up" /\ boot' = "up") =>
          \A id \in RunIds :
              (registry[id] # 0 /\ registry'[id] = 0) =>
                  /\ run[registry[id]].status \notin {PENDING, RUNNING}
                  /\ IsTerminalStatus(run[registry[id]].status)
                  /\ run[registry[id]].aged]_vars

\* The sweep has removed an old terminal run of a server that never died.
C19_Witness ==
    /\ boot = "up"
    /\ crashes = 0
    /\ \E o \in Objs :
          /\ o <= nObj
          /\ run[o].aged
          /\ is_terminal(o)
          /\ registry[run[o].run_id] = 0

\* C20: a worker that has executed a run has sent exactly one callback, with
\* the final terminal status, error and duration of the run, and none earlier.
C20_OneCallbackFinalStatus ==
    \A o \in Objs :
        /\ Len(sent[o]) <= 1
        /\ wk[o].pc \in Dispatched => sent[o] = <<>>
        /\ wk[o].pc = "done" =>
              /\ Len(sent[o]) = 1
              /\ IsTerminalStatus(sent[o][1].status)
              /\ sent[o][1] = [status |-> run[o].status, error |-> run[o].error,
                               duration |-> run[o].duration]

\* C21: CancelRun on a run that is not terminal sets its cancellation
\* signal and answers cancelled=true; on a terminal run it answers
\* cancelled=false and changes no field of the run; on an unknown run
\* identifier it answers not-found.
C21_CancelRunOutcome ==
    [][\A id \in RunIds :
          CancelRun(id) =>
              LET o == registry[id]
              IN IF o = 0
                 THEN resp'.code = "NOT_FOUND" /\ run' = run
                 ELSE IF IsTerminalStatus(run[o].status)
                 THEN resp'.code = "cancelled=false" /\ run' = run
                 ELSE /\ resp'.code = "cancelled=true"
                      /\ run'[o].cancel_event
                      /\ run' = [run EXCEPT ![o].cancel_event = TRUE]]_vars

\* CancelRun has been refused for a registered terminal run whose signal is
\* not set.
C21_Witness ==
    /\ resp.op = "cancel"
    /\ resp.code = "cancelled=false"
    /\ \E id \in RunIds :
          /\ registry[id] # 0
          /\ is_terminal(registry[id])
          /\ ~run[registry[id]].cancel_event

\* C23: landing zones are archived and the table is maintained only in a
\* run that is Success and has written rows.
C23_PostTasksOnlyWithRows ==
    \A o \in Objs :
        ("archive" \in wk[o].calls \/ "maintenance" \in wk[o].calls) =>
            run[o].status = SUCCESS /\ wk[o].row_count > 0

\* C24: a failure of the archiving or of the maintenance leaves the run
\* Success and its row count as it was.
C24_PostTaskFailureIsNotFatal ==
    /\ [](\A o \in Objs :
             (wk[o].calls \cap {"archive_failed", "maintenance_failed"} # {}) =>
                 run[o].status = SUCCESS)
    /\ [][\A o \in Objs :
             (wk[o].pc = "post" /\ wk'[o].pc = "fin") =>
                 wk'[o].row_count = wk[o].row_count]_vars

\* execute_pipeline has returned from a run whose maintenance raised.
C24_Witness ==
    \E o \in Objs :
        /\ wk[o].pc = "ret"
        /\ "maintenance_failed" \in wk[o].calls
        /\ run[o].status = SUCCESS
        /\ wk[o].row_count > 0

\* Marker files the process found when it started, by content.
ValidAtStart == {id \in atDeath : content[id] = "valid"}
CorruptAtStart == {id \in atDeath : content[id] # "valid"}

\* C25: startup is never stopped by a marker, and after reconciliation the
\* state directory holds no marker: every valid one is registered as Failed,
\* every corrupt one is gone without a registry entry.
C25_ReconciliationClearsMarkers ==
    /\ boot # "failed"
    /\ boot = "reconciled" =>
          /\ markers = {}
          /\ \A id \in ValidAtStart :
                registry[id] # 0 /\ run[registry[id]].status = FAILED
          /\ \A id \in CorruptAtStart : registry[id] = 0

\* C30: a valid marker is off the disk only when its run is in the registry
\* as Failed.
C30_MarkerRemovedAfterRegistered ==
    \A id \in ValidAtStart :
        id \in markers \/ (registry[id] # 0 /\ run[registry[id]].status = FAILED)

\* C26: a run identifier that makes run-<run-id> an invalid branch name never
\* enters the registry, gets no marker and no worker.
C26_UnsafeIdRejected ==
    \A id \in RunIds :
        InvalidBranchName(id) =>
            /\ registry[id] = 0
            /\ id \notin markers
            /\ \A o \in Objs : run[o].run_id # id

\* Objects whose worker has been handed the run and has not returned.
WorkersOf(id) == {o \in Objs : wk[o].pc \in Dispatched /\ run[o].run_id = id}

\* C27: no two workers execute under one run identifier, and a submission
\* never replaces the registry entry of a run that is still in the registry.
C27_OneWorkerPerRunId ==
    /\ [](\A id \in RunIds : Cardinality(WorkersOf(id)) <= 1)
    /\ [][\A id \in RunIds :
             registry[id] # 0 => registry'[id] \in {registry[id], 0}]_vars

\* C28: while a worker has a run and has not returned from it, GetRunStatus
\* for its identifier does not answer not-found.
C28_RegisteredWhileExecuted ==
    \A o \in Objs :
        wk[o].pc \in Dispatched => GetRunStatus(run[o].run_id).code # "NOT_FOUND"

\* Positions between the return of Phase 0 and the return of Phase 5.
UpToPhase5 == {"p1", "p2", "p3", "p4", "p5", "post"}

\* The branch of the identifier was on the catalog when the process died
\* with the run in flight.
LeftByCrash(id) == id \in atDeath /\ id \in branches

\* C29: at every point the branch of a run exists if and only if Phase 0 of
\* that run succeeded and Phase 5 has not yet run, or it was left behind by
\* a process that crashed.
C29_BranchExistsIff ==
    \A id \in RunIds :
       id \in branches <=>
          \/ \E o \in Objs : /\ run[o].run_id = id
                             /\ wk[o].branch_created
                             /\ wk[o].pc \in UpToPhase5
          \/ LeftByCrash(id)

\* C29, as the code has it: from the success of Phase 0 to the return of
\* Phase 5 the branch of the run exists (after a merge too); a branch
\* appears only by Phase 0 and disappears only by a delete_branch sent by
\* Phase 5 or by the finally block of execute_pipeline.
C29_BranchLifecycle ==
    /\ [](\A o \in Objs :
             (wk[o].branch_created /\ wk[o].pc \in UpToPhase5)
                => run[o].run_id \in branches)
    /\ [][\A id \in RunIds :
             /\ (id \notin branches /\ id \in branches')
                   => \E o \in Objs : /\ run[o].run_id = id
                                      /\ wk[o].pc = "p0"
                                      /\ wk'[o].branch_created
             /\ (id \in branches /\ id \notin branches')
                   => \E o \in Objs : /\ run[o].run_id = id
                                      /\ wk[o].pc \in {"p5", "fin", "finx"}
                                      /\ "delete" \in wk'[o].calls]_vars

\* A worker has left execute_pipeline after its delete_branch failed: the
\* branch is still on the catalog and no process has crashed.
C29_Witness ==
    \E o \in Objs :
       /\ crashes = 0
       /\ wk[o].pc \in {"ret", "rm"}
       /\ wk[o].branch_created
       /\ "merge" \in wk[o].calls
       /\ "delete" \in wk[o].calls
       /\ run[o].run_id \in branches

\* A StreamLogs request is open on a run.
StreamOpen == call.fn = "StreamLogs" /\ call.pc \in {"read", "check", "wait"}

\* C22: without follow, StreamLogs yields the entries in the buffer and
\* ends, without ever waiting; with follow it ends only on a terminal run,
\* and it does not stay open for ever on a run that stays terminal.
C22_StreamLogsTermination ==
    /\ [][/\ (call.pc = "read" /\ call'.pc = "check") =>
                call'.cursor = Len(Deque(logs[call.o]))
          /\ (call.pc # "wait" /\ call'.pc = "wait") =>
                call.follow /\ ~IsTerminalStatus(run[call.o].status)
          /\ (call.pc = "check" /\ call'.pc = "end" /\ call.follow) =>
                IsTerminalStatus(run[call.o].status)]_vars
    /\ (StreamOpen /\ ~call.follow) ~> (call.pc = "end")
    /\ []<>(~(StreamOpen /\ call.follow /\ IsTerminalStatus(run[call.o].status)))

\* A following stream has ended on a terminal run after yielding entries.
C22_Witness ==
    /\ call.fn = "StreamLogs"
    /\ call.pc = "end"
    /\ call.follow
    /\ call.cursor > 0
    /\ IsTerminalStatus(run[call.o].status)

\* C31: a streaming reader receives the entries of a run in append order,
\* each at most once, and every read of the buffer brings it up to the
\* newest entry the run has appended, also once the buffer has dropped its
\* oldest entries.
C31_StreamKeepsUp ==
    /\ [](call.fn = "StreamLogs" =>
            \A i, j \in DOMAIN call.got : i < j => call.got[i] < call.got[j])
    /\ [][(call.fn = "StreamLogs" /\ call.pc = "read" /\ call'.pc = "check"
              /\ logs[call.o] > 0)
            => /\ call'.got # <<>>
               /\ call'.got[Len(call'.got)] = logs[call.o]]_vars

\* C32: the branch an attempt works on was created from main for that
\* attempt: it holds no write but the attempt's own, none of an earlier
\* attempt and none of another worker.
C32_AttemptBranchIsFresh ==
    \A o \in Objs :
       (wk[o].branch_created /\ wk[o].pc \in UpToPhase5) =>
           branchData[run[o].run_id] \subseteq {Write(o)}

\* C33: once GetRunStatus reports a terminal status for a run, what it
\* reports for that run (status, error, duration) is final: a later
\* GetRunStatus for the same run returns the same values.
C33_TerminalReportIsFinal ==
    [][\A id \in RunIds :
          (/\ registry[id] # 0
           /\ registry'[id] = registry[id]
           /\ IsTerminalStatus(run[registry[id]].status))
             => GetRunStatus(id)' = GetRunStatus(id)]_vars

\* C34: a StreamLogs request with follow set, opened on a run that has not
\* finished, has yielded every entry the run appended (the buffer dropping
\* none) by the time the worker is done with the run and the stream has
\* ended.
C34_FollowDeliversAll ==
    \A o \in Objs :
       (/\ call.fn = "StreamLogs" /\ call.pc = "end" /\ call.code = "OK"
        /\ call.follow /\ call.live /\ call.o = o
        /\ wk[o].pc = "done"
        /\ logs[o] <= MAX_LOG_ENTRIES)
          => Len(call.got) = logs[o]

\* C35: while the server is up, the sweep removes a run from the registry
\* only when RUN_TTL_SECONDS have passed since the run became terminal.
C35_KeptForTtlAfterEnd ==
    [][(boot = "up" /\ boot' = "up") =>
          \A id \in RunIds :
              (registry[id] # 0 /\ registry'[id] = 0) =>
                  run[registry[id]].since_end]_vars

\* C36: a catalog request that fails with a timeout, a connection error or
\* a 5xx is sent again, up to 3 times after delays of 0.5 s, 1 s and 2 s,
\* and then the last error is raised; any other error is raised at once.
C36_RetryOnTransientOnly ==
    /\ [](call.fn \in CatalogFns =>
            /\ \A kind \in DOMAIN call.sent : call.sent[kind] <= max_retries + 1
            /\ Len(call.sleeps) <= max_retries
            /\ \A i \in DOMAIN call.sleeps : call.sleeps[i] = Backoff(i - 1))
    /\ [][call.fn \in CatalogFns =>
            \A kind \in DOMAIN call.sent :
               call'.sent[kind] = call.sent[kind] + 1 =>
                  /\ (_is_transient_error(call'.last)
                        /\ call'.sent[kind] <= max_retries)
                       => (call'.result = "" /\ Len(call'.sleeps) = Len(call.sleeps) + 1)
                  /\ (_is_transient_error(call'.last)
                        /\ call'.sent[kind] = max_retries + 1)
                       => (call'.result = "raised" /\ call'.exc = call'.last)
                  /\ call'.last = "HTTPError 400"
                       => (call'.result = "raised" /\ call'.exc = "HTTPError 400"
                           /\ call'.sleeps = call.sleeps)]_vars

\* C37 as stated: merge_branch and delete_branch return normally when the
\* catalog answers 404.
C37_GoneBranchTolerated ==
    [][(/\ call.fn \in {"merge_branch", "delete_branch"}
        /\ \E kind \in DOMAIN call.sent : call'.sent[kind] = call.sent[kind] + 1
        /\ call'.last = "HTTPError 404")
          => call'.result = "returned"]_vars

\* C37, as the code has it: delete_branch returns normally on a 404, from
\* the reference lookup or from the DELETE; merge_branch raises the 404 at
\* once, without waiting and without another request.
C37_OnlyDeleteToleratesGone ==
    [][(/\ call.fn \in {"merge_branch", "delete_branch"}
        /\ \E kind \in DOMAIN call.sent : call'.sent[kind] = call.sent[kind] + 1
        /\ call'.last = "HTTPError 404")
          => /\ call.fn = "delete_branch" => call'.result = "returned"
             /\ call.fn = "merge_branch" =>
                   /\ call'.result = "raised"
                   /\ call'.exc = "HTTPError 404"
                   /\ call'.sleeps = call.sleeps]_vars

\* delete_branch has returned after a 404 for its DELETE.
C37_Witness ==
    /\ call.fn = "delete_branch"
    /\ call.sent.req = 1
    /\ call.last = "HTTPError 404"
    /\ call.result = "returned"

\* C39: when a refresh that found a changed commit hash completes, the
\* views of the engine are those of the tables just discovered, each on the
\* table's current path, whatever happened to earlier refreshes.
C39_ViewsMatchDiscovered ==
    [][(/\ call.fn = "register_tables"
        /\ call.pc = "store" /\ call'.pc = "idle"
        /\ call.current_hash # 0)
          => call'.views = call.found]_vars

\* C40: every cycle detect_cycles returns starts and ends with the same
\* pipeline, and each pipeline in it depends on the one that follows it.
C40_CycleIsClosedPath ==
    call.fn = "detect_cycles" =>
        \A k \in DOMAIN call.cycles :
           LET cycle == call.cycles[k]
           IN /\ Len(cycle) >= 2
              /\ cycle[1] = cycle[Len(cycle)]
              /\ \A i \in 1..(Len(cycle) - 1) : cycle[i + 1] \in call.dag[cycle[i]]

\* How often a row occurs in a table.
Count(r, rows) == Cardinality({i \in DOMAIN rows : rows[i] = r})
\* Two tables hold the same rows, each as often.
SameContents(s, t) == \A r \in Rows : Count(r, s) = Count(r, t)

\* C38: with a key of one column, whatever the optimised delete+append does
\* (it goes through, it fails before its delete, it fails after it and the
\* full rewrite follows), the write leaves the rows the full rewrite alone
\* would have left, for the incremental, delete_insert and snapshot
\* strategies.
C38_OptimizedEqualsFullRewrite ==
    (/\ call.fn \in WriteFns
     /\ call.runs >= 1
     /\ Len(call.unique_key) = 1
     /\ call.before.exists)
       => LET c == call
              full_rewrite ==
                  IF c.fn = "merge_iceberg"
                  THEN merge_iceberg_full_rewrite(c.before.rows, c.new_data,
                                                  c.unique_key)
                  ELSE IF c.fn = "delete_insert_iceberg"
                  THEN delete_insert_full_rewrite(c.before.rows, c.new_data,
                                                  c.unique_key)
                  ELSE snapshot_full_rewrite(c.before.rows, c.new_data,
                                             c.unique_key[1])
          IN SameContents(call.once.rows, full_rewrite)

\* C17: an incremental, delete_insert or snapshot write executed twice with
\* the same input leaves the table it leaves when executed once.
C17_WriteTwiceEqualsOnce ==
    (call.fn \in WriteFns /\ call.runs = 2) =>
        SameContents(call.table.rows, call.once.rows)

\* The key of a row under a unique key.
KeyOf(r, unique_key) == [i \in DOMAIN unique_key |-> r[unique_key[i]]]

\* C18: after an incremental write into an existing table, each key of
\* new_data has exactly one row, the last row of new_data with that key, and
\* every earlier row whose key is not in new_data is there as before.
C18_MergeLastWins ==
    (call.fn = "merge_iceberg" /\ call.runs = 1 /\ call.before.exists) =>
        LET uk == call.unique_key
            nd == call.new_data
            old == call.before.rows
            now == call.table.rows
            ndKeys == {KeyOf(nd[i], uk) : i \in DOMAIN nd}
        IN /\ \A i \in DOMAIN nd :
                 (\A j \in DOMAIN nd : j > i => KeyOf(nd[j], uk) # KeyOf(nd[i], uk)) =>
                     /\ Count(nd[i], now) = 1
                     /\ \A n \in DOMAIN now :
                           KeyOf(now[n], uk) = KeyOf(nd[i], uk) => now[n] = nd[i]
           /\ \A r \in Rows :
                 KeyOf(r, uk) \notin ndKeys => Count(r, now) = Count(r, old)

====
